---- MODULE Spec2Model ----
(***************************************************************************)
(* The two notebooks of the repository, each run top to bottom in a fresh  *)
(* kernel against the managed platform:                                    *)
(*   tc  Amazon_JumpStart_Text_Classification.ipynb                        *)
(*   pf  tf-resnet-profiling-multi-gpu-multi-node.ipynb                    *)
(* A state holds the kernel (next code cell, namespace, the exception that *)
(* ended the run) and the remote platform (manifest, training job,         *)
(* endpoint, the calls and requests it received).  An uncaught exception   *)
(* stops the run: under Run All no later cell is executed; a user who runs *)
(* the cells by hand may go on with the next cell.                         *)
(***************************************************************************)
EXTENDS Integers, Sequences, FiniteSets, TLC

VARIABLES
    notebook,   \* the notebook the kernel runs: "tc" or "pf"
    mode,       \* how the cells are run: "runall" or "manual"
    region,     \* boto3.Session().region_name of the environment
    manifest,   \* models_manifest.json in the JumpStart bucket
    selected,   \* the user picked an option of the dropdown
    pc,         \* number of the next code cell to execute
    ns,         \* kernel namespace: bound name -> value
    err,        \* the exception that ended the run, "none" while it runs
    blocked,    \* the current cell waits inside a remote call
    loopI,      \* position of the for loop of the inference cell
    calls,      \* remote calls issued so far, in order
    requests,   \* training requests the platform received
    job,        \* status of the training job on the platform
    jobName,    \* name the SDK gave the submitted job
    profData,   \* system profiling data of the job is available in S3
    endpoint    \* status of the hosted endpoint on the platform

vars == <<notebook, mode, region, manifest, selected, pc, ns, err, blocked, loopI, calls,
          requests, job, jobName, profData, endpoint>>

kernel == <<pc, ns, err, blocked, loopI>>
remote == <<calls, requests, job, jobName, profData, endpoint>>
env == <<notebook, mode, region, manifest, selected>>

-----------------------------------------------------------------------------
(* Bounds and input pools *)

MaxManifest == 3

Regions == {"us-west-2", "eu-west-1"}

JobNames == {"job-2021-01-01", "job-2021-01-02"}

RemoteErrors == {"ClientError", "EndpointConnectionError"}

DefaultModelId == "tensorflow-tc-bert-en-uncased-L-12-H-768-A-12-2"

ManifestRecords ==
    { [model_id |-> DefaultModelId, version |-> "1.0.0"],
      [model_id |-> DefaultModelId, version |-> "2.0.0"],
      [model_id |-> "huggingface-tc-bert-base-cased", version |-> "1.0.0"],
      [model_id |-> "mxnet-tcn-robust-classification", version |-> "1.0.0"] }

Manifests == UNION { [1..n -> ManifestRecords] : n \in 0..MaxManifest }

-----------------------------------------------------------------------------
(* Python semantics used by the cells *)

\* sub in s, on strings
Contains(s, sub) ==
    \E i \in 1..(Len(s) - Len(sub) + 1) : SubSeq(s, i, i + Len(sub) - 1) = sub

\* x in list
InList(x, list) == \E i \in 1..Len(list) : list[i] = x

\* name = value in the kernel namespace
Bind(f, name, value) ==
    [n \in DOMAIN f \cup {name} |-> IF n = name THEN value ELSE f[n]]

Bind2(f, n1, v1, n2, v2) == Bind(Bind(f, n1, v1), n2, v2)

Bind3(f, n1, v1, n2, v2, n3, v3) == Bind(Bind2(f, n1, v1, n2, v2), n3, v3)

\* a cell is run when the kernel reached it and nothing was raised before
Ready(nb, k) == notebook = nb /\ pc = k /\ err = "none" /\ ~blocked

\* an exception raised by the kernel itself stops the cell where it stands
LocalRaise(e) ==
    /\ err' = e
    /\ UNCHANGED <<pc, ns, blocked, loopI>>
    /\ UNCHANGED remote
    /\ UNCHANGED env

\* reading a name no earlier cell bound raises NameError
NameError(reads) == ~(reads \subseteq DOMAIN ns) /\ LocalRaise("NameError")

\* the number after the last code cell of the notebook
End == IF notebook = "tc" THEN 13 ELSE 12

\* the call `op` of cell k goes out to the platform
Issue(k, op, result) == Append(calls, [cell |-> k, op |-> op, result |-> result])

\* the outcome of the call in flight becomes known
Settle(log, result) == [log EXCEPT ![Len(log)].result = result]

-----------------------------------------------------------------------------
Init ==
    /\ notebook \in {"tc", "pf"}
    /\ mode \in {"runall", "manual"}
    /\ region \in Regions
    /\ manifest \in (IF notebook = "tc" THEN Manifests ELSE {<<>>})
    /\ selected = FALSE
    /\ pc = 1
    /\ ns = <<>>
    /\ err = "none"
    /\ blocked = FALSE
    /\ loopI = 1
    /\ calls = <<>>
    /\ requests = <<>>
    /\ job = "none"
    /\ jobName = "none"
    /\ profData = FALSE
    /\ endpoint = "none"

-----------------------------------------------------------------------------
(* Text classification notebook: pure steps of the model-selection cell *)

\* the filter with the marker in upper case: no lower-case id passes
FilterTcUpper(model_list) ==
    SelectSeq([i \in 1..Len(model_list) |-> model_list[i].model_id],
              LAMBDA id : Contains(id, "-TC-"))

\* [model["model_id"] for model in model_list if "-tc-" in model["model_id"]]
FilterTc(model_list) ==
    SelectSeq([i \in 1..Len(model_list) |-> model_list[i].model_id],
              LAMBDA id : Contains(id, "-tc-"))

\* the list comprehension without its condition: every id is appended
AppendAll(tc_models, all_versions) == tc_models \o all_versions

\* [tc_models.append(model) for model in all_versions if model not in tc_models]
RECURSIVE AppendNew(_, _)
AppendNew(tc_models, all_versions) ==
    IF all_versions = <<>> THEN tc_models
    ELSE AppendNew(IF InList(Head(all_versions), tc_models)
                   THEN tc_models
                   ELSE Append(tc_models, Head(all_versions)),
                   Tail(all_versions))

\* f"jumpstart-cache-prod-{aws_region}"
JumpStartBucket(aws_region) == "jumpstart-cache-prod-" \o aws_region

\* f"s3://{training_data_bucket}/{training_data_prefix}"
TrainingDatasetS3Path(bucket) == "s3://" \o bucket \o "/" \o "training-datasets/SST/"

Hyperparameters == [epochs |-> "1", batch_size |-> "64"]

Text1 == "astonishing ... ( frames ) profound ethical and philosophical questions in the form of dazzling pop entertainment"

Text2 == "simply stupid , irrelevant and deeply , truly , bottomlessly cynical "

-----------------------------------------------------------------------------
(* Text classification notebook: the code cells, top to bottom *)

\* cell 1: !pip install sagemaker ipywidgets --upgrade --quiet
TCPipInstall ==
    /\ Ready("tc", 1)
    /\ pc' = 2
    /\ UNCHANGED <<ns, err, blocked, loopI>>
    /\ UNCHANGED remote
    /\ UNCHANGED env

\* cell 2: aws_role, aws_region, sess
TCSetUp ==
    /\ Ready("tc", 2)
    /\ ns' = Bind3(ns, "aws_role", "role", "aws_region", region, "sess", "session")
    /\ pc' = 3
    /\ UNCHANGED <<err, blocked, loopI>>
    /\ UNCHANGED remote
    /\ UNCHANGED env

\* cell 3: model_id = "tensorflow-tc-bert-en-uncased-L-12-H-768-A-12-2"
TCDefaultModel ==
    /\ Ready("tc", 3)
    /\ ns' = Bind(ns, "model_id", DefaultModelId)
    /\ pc' = 4
    /\ UNCHANGED <<err, blocked, loopI>>
    /\ UNCHANGED remote
    /\ UNCHANGED env

\* cell 4: download the manifest, filter it, build the dropdown
TCSelectModel ==
    /\ Ready("tc", 4)
    /\ \/ NameError({"aws_region", "model_id"})
       \/ /\ {"aws_region", "model_id"} \subseteq DOMAIN ns
          /\ UNCHANGED <<blocked, loopI, requests, job, jobName, profData, endpoint>>
          /\ UNCHANGED env
          /\ \/ \E e \in RemoteErrors :
                   /\ calls' = Issue(4, "download_file", e)
                   /\ err' = e
                   /\ UNCHANGED <<pc, ns>>
             \/ /\ calls' = Issue(4, "download_file", "returned")
                /\ LET model_list == manifest
                       all_versions == FilterTc(model_list)
                       tc_models == AppendNew(<<>>, all_versions)
                       listed == Bind3(ns, "model_list", model_list,
                                       "tc_models_all_versions", all_versions,
                                       "tc_models", tc_models)
                   IN  IF InList(ns["model_id"], tc_models)
                       THEN /\ ns' = Bind(listed, "dropdown",
                                          [value |-> ns["model_id"],
                                           options |-> tc_models])
                            /\ pc' = 5
                            /\ err' = err
                       ELSE \* Dropdown(value=...) rejects a value that is no option
                            /\ ns' = listed
                            /\ err' = "TraitError"
                            /\ pc' = pc

\* the user picks another option of the displayed dropdown
UserSelect ==
    /\ notebook = "tc"
    /\ err = "none"
    /\ "dropdown" \in DOMAIN ns
    /\ \E i \in 1..Len(ns["dropdown"].options) :
          /\ ns["dropdown"].options[i] # ns["dropdown"].value
          /\ ns' = [ns EXCEPT !["dropdown"].value = ns["dropdown"].options[i]]
    /\ selected' = TRUE
    /\ UNCHANGED <<pc, err, blocked, loopI>>
    /\ UNCHANGED remote
    /\ UNCHANGED <<notebook, mode, region, manifest>>

\* cell 5: model_id = dropdown.value
TCReadDropdown ==
    /\ Ready("tc", 5)
    /\ \/ NameError({"dropdown"})
       \/ /\ "dropdown" \in DOMAIN ns
          /\ ns' = Bind(ns, "model_id", ns["dropdown"].value)
          /\ pc' = 6
          /\ UNCHANGED <<err, blocked, loopI>>
          /\ UNCHANGED remote
          /\ UNCHANGED env

\* cell 6: training_data_bucket, training_data_prefix, training_dataset_s3_path
TCTrainingData ==
    /\ Ready("tc", 6)
    /\ ns' = Bind3(ns, "training_data_bucket", JumpStartBucket(region),
                   "training_data_prefix", "training-datasets/SST/",
                   "training_dataset_s3_path",
                   TrainingDatasetS3Path(JumpStartBucket(region)))
    /\ pc' = 7
    /\ UNCHANGED <<err, blocked, loopI>>
    /\ UNCHANGED remote
    /\ UNCHANGED env

\* cell 7 with the model id written out instead of read from model_id
TCEstimatorDefaultId ==
    /\ Ready("tc", 7)
    /\ ns' = Bind(ns, "estimator",
                  [model_id |-> DefaultModelId,
                   hyperparameters |-> Hyperparameters])
    /\ pc' = 8
    /\ UNCHANGED <<err, blocked, loopI>>
    /\ UNCHANGED remote
    /\ UNCHANGED env

\* cell 7: estimator = JumpStartEstimator(model_id=model_id, hyperparameters=...)
TCEstimator ==
    /\ Ready("tc", 7)
    /\ \/ NameError({"model_id"})
       \/ /\ "model_id" \in DOMAIN ns
          /\ ns' = Bind(ns, "estimator",
                        [model_id |-> ns["model_id"],
                         hyperparameters |-> Hyperparameters])
          /\ pc' = 8
          /\ UNCHANGED <<err, blocked, loopI>>
          /\ UNCHANGED remote
          /\ UNCHANGED env

\* cell 8 as estimator.fit(..., wait=False): the call returns at once
TCFitNoWait ==
    /\ Ready("tc", 8)
    /\ {"estimator", "training_dataset_s3_path"} \subseteq DOMAIN ns
    /\ \E name \in JobNames :
          /\ calls' = Issue(8, "fit", "returned")
          /\ requests' = Append(requests,
                 [model_id |-> ns["estimator"].model_id,
                  hyperparameters |-> ns["estimator"].hyperparameters,
                  inputs |-> [training |-> ns["training_dataset_s3_path"]]])
          /\ job' = "InProgress"
          /\ jobName' = name
    /\ pc' = 9
    /\ UNCHANGED <<ns, err, blocked, loopI, profData, endpoint>>
    /\ UNCHANGED env

\* cell 8: estimator.fit({"training": training_dataset_s3_path}, logs=True)
\*         the request goes out; the call returns only when the job has ended
TCFitSubmit ==
    /\ Ready("tc", 8)
    /\ \/ NameError({"estimator", "training_dataset_s3_path"})
       \/ /\ {"estimator", "training_dataset_s3_path"} \subseteq DOMAIN ns
          /\ UNCHANGED <<pc, ns, loopI, profData, endpoint>>
          /\ UNCHANGED env
          /\ \/ \E e \in RemoteErrors :
                   /\ calls' = Issue(8, "fit", e)
                   /\ err' = e
                   /\ UNCHANGED <<blocked, requests, job, jobName>>
             \/ \E name \in JobNames :
                   /\ calls' = Issue(8, "fit", "pending")
                   /\ requests' = Append(requests,
                          [model_id |-> ns["estimator"].model_id,
                           hyperparameters |-> ns["estimator"].hyperparameters,
                           inputs |-> [training |-> ns["training_dataset_s3_path"]]])
                   /\ job' = "InProgress"
                   /\ jobName' = name
                   /\ blocked' = TRUE
                   /\ err' = err

\* fit(wait=True) returns when the job completed and raises when it failed
TCFitReturn ==
    /\ notebook = "tc" /\ pc = 8 /\ err = "none" /\ blocked
    /\ job \in {"Completed", "Failed"}
    /\ blocked' = FALSE
    /\ IF job = "Completed"
       THEN /\ calls' = Settle(calls, "returned")
            /\ pc' = 9
            /\ err' = err
       ELSE /\ calls' = Settle(calls, "UnexpectedStatusException")
            /\ err' = "UnexpectedStatusException"
            /\ pc' = pc
    /\ UNCHANGED <<ns, loopI, requests, job, jobName, profData, endpoint>>
    /\ UNCHANGED env

\* cell 9 as estimator.deploy(wait=False): the call returns while the endpoint
\* is still being created
TCDeployNoWait ==
    /\ Ready("tc", 9)
    /\ "estimator" \in DOMAIN ns
    /\ job = "Completed"
    /\ calls' = Issue(9, "deploy", "returned")
    /\ endpoint' = "Creating"
    /\ ns' = Bind(ns, "predictor", [endpoint |-> "Creating"])
    /\ pc' = 10
    /\ UNCHANGED <<err, blocked, loopI, requests, job, jobName, profData>>
    /\ UNCHANGED env

\* cell 9: predictor = estimator.deploy()
TCDeploy ==
    /\ Ready("tc", 9)
    /\ \/ NameError({"estimator"})
       \/ \* an estimator that never started a training job has nothing to deploy
          /\ "estimator" \in DOMAIN ns
          /\ job = "none"
          /\ LocalRaise("ValueError")
       \/ /\ "estimator" \in DOMAIN ns
          /\ UNCHANGED <<blocked, loopI, requests, job, jobName, profData>>
          /\ UNCHANGED env
          /\ job # "none"
          /\ \/ \E e \in RemoteErrors :
                   /\ calls' = Issue(9, "deploy", e)
                   /\ err' = e
                   /\ endpoint' \in {endpoint, "Failed"}
                   /\ UNCHANGED <<pc, ns>>
             \/ /\ job = "Completed"
                /\ calls' = Issue(9, "deploy", "returned")
                /\ endpoint' = "InService"
                /\ ns' = Bind(ns, "predictor", [endpoint |-> "InService"])
                /\ pc' = 10
                /\ err' = err

\* cell 10: text1 = ..., text2 = ...
TCTexts ==
    /\ Ready("tc", 10)
    /\ ns' = Bind2(ns, "text1", Text1, "text2", Text2)
    /\ pc' = 11
    /\ UNCHANGED <<err, blocked, loopI>>
    /\ UNCHANGED remote
    /\ UNCHANGED env

\* cell 11 with a retry around predict: a predict that raised is issued again,
\* and the error is raised only when the retry fails too
TCPredictRetry ==
    /\ Ready("tc", 11)
    /\ {"text1", "text2", "predictor"} \subseteq DOMAIN ns
    /\ UNCHANGED <<blocked, requests, job, jobName, profData, endpoint>>
    /\ UNCHANGED env
    /\ LET texts == <<ns["text1"], ns["text2"]>>
           text == texts[loopI]
           retried == calls # <<>> /\ calls[Len(calls)].op = "predict"
                         /\ calls[Len(calls)].result \in RemoteErrors
       IN  \/ \E e \in RemoteErrors :
                 /\ calls' = Issue(11, "predict", e)
                 /\ err' = IF retried THEN e ELSE err
                 /\ ns' = Bind(ns, "text", text)
                 /\ UNCHANGED <<pc, loopI>>
           \/ /\ endpoint = "InService"
              /\ calls' = Issue(11, "predict", "returned")
              /\ ns' = Bind2(ns, "text", text, "query_response", "response")
              /\ err' = err
              /\ IF loopI < Len(texts)
                 THEN loopI' = loopI + 1 /\ pc' = pc
                 ELSE loopI' = 1 /\ pc' = 12

\* cell 11 with try/except around predict: the error is dropped and the loop
\* goes on with the next text
TCPredictSwallow ==
    /\ Ready("tc", 11)
    /\ {"text1", "text2", "predictor"} \subseteq DOMAIN ns
    /\ UNCHANGED <<blocked, requests, job, jobName, profData, endpoint>>
    /\ UNCHANGED env
    /\ LET texts == <<ns["text1"], ns["text2"]>>
           text == texts[loopI]
       IN  /\ \/ \E e \in RemoteErrors :
                    /\ calls' = Issue(11, "predict", e)
                    /\ ns' = Bind(ns, "text", text)
              \/ /\ endpoint = "InService"
                 /\ calls' = Issue(11, "predict", "returned")
                 /\ ns' = Bind2(ns, "text", text, "query_response", "response")
           /\ err' = err
           /\ IF loopI < Len(texts)
              THEN loopI' = loopI + 1 /\ pc' = pc
              ELSE loopI' = 1 /\ pc' = 12

\* cell 11: for text in [text1, text2]: query_response = predictor.predict(text)
\*          one step is one iteration of the loop
TCPredict ==
    /\ Ready("tc", 11)
    /\ \/ NameError({"text1", "text2", "predictor"})
       \/ /\ {"text1", "text2", "predictor"} \subseteq DOMAIN ns
          /\ UNCHANGED <<blocked, requests, job, jobName, profData, endpoint>>
          /\ UNCHANGED env
          /\ LET texts == <<ns["text1"], ns["text2"]>>
                 text == texts[loopI]
             IN  \/ \E e \in RemoteErrors :
                       /\ calls' = Issue(11, "predict", e)
                       /\ err' = e
                       /\ ns' = Bind(ns, "text", text)
                       /\ UNCHANGED <<pc, loopI>>
                 \/ /\ endpoint = "InService"
                    /\ calls' = Issue(11, "predict", "returned")
                    /\ ns' = Bind2(ns, "text", text, "query_response", "response")
                    /\ err' = err
                    /\ IF loopI < Len(texts)
                       THEN loopI' = loopI + 1 /\ pc' = pc
                       ELSE loopI' = 1 /\ pc' = 12

\* cell 12 as predictor.delete_model(): the model goes, the endpoint stays
TCDeleteModelOnly ==
    /\ Ready("tc", 12)
    /\ "predictor" \in DOMAIN ns
    /\ calls' = Issue(12, "delete_model", "returned")
    /\ pc' = 13
    /\ UNCHANGED <<ns, err, blocked, loopI, requests, job, jobName, profData, endpoint>>
    /\ UNCHANGED env

\* cell 12: predictor.delete_predictor()
TCDelete ==
    /\ Ready("tc", 12)
    /\ \/ NameError({"predictor"})
       \/ /\ "predictor" \in DOMAIN ns
          /\ UNCHANGED <<ns, blocked, loopI, requests, job, jobName, profData>>
          /\ UNCHANGED env
          /\ \/ \E e \in RemoteErrors :
                   /\ calls' = Issue(12, "delete_predictor", e)
                   /\ err' = e
                   /\ UNCHANGED <<pc, endpoint>>
             \/ /\ calls' = Issue(12, "delete_predictor", "returned")
                /\ endpoint' = "Deleted"
                /\ pc' = 13
                /\ err' = err

-----------------------------------------------------------------------------
(* Profiling notebook: the configuration records *)

\* hyperparameters = {'epoch': 5, 'batch_size': 64, 'data_augmentation': True}
PFHyperparameters == [epoch |-> 5, batch_size |-> 64, data_augmentation |-> TRUE]

\* distributions = {"mpi": {...}}
Distributions ==
    [mpi |-> [enabled |-> TRUE,
              processes_per_host |-> 4,
              custom_mpi_options |-> "-verbose -x HOROVOD_TIMELINE=./hvd_timeline.json -x NCCL_DEBUG=INFO -x OMPI_MCA_btl_vader_single_copy_mechanism=none"]]

\* rules = [Rule.sagemaker(...), ProfilerRule.sagemaker(...), ProfilerRule.sagemaker(...)]
Rules ==
    << [kind |-> "Rule", config |-> "loss_not_decreasing"],
       [kind |-> "ProfilerRule", config |-> "LowGPUUtilization"],
       [kind |-> "ProfilerRule", config |-> "ProfilerReport"] >>

\* FrameworkProfile(**given): the step range of the detailed profiling; a start
\* step that is not given is step 0, a number of steps that is not given is 1
FrameworkProfile(given) ==
    [start_step |-> IF "start_step" \in DOMAIN given THEN given.start_step ELSE 0,
     num_steps |-> IF "num_steps" \in DOMAIN given THEN given.num_steps ELSE 1]

\* ProfilerConfig(system_monitor_interval_millis=500,
\*                framework_profile_params=FrameworkProfile(num_steps=10))
ProfilerConfig ==
    [system_monitor_interval_millis |-> 500,
     framework_profile_params |-> FrameworkProfile([num_steps |-> 10])]

\* the session's default bucket, where an estimator without output_path writes
DefaultOutputPath(r) == "s3://sagemaker-" \o r \o "/"

-----------------------------------------------------------------------------
(* Profiling notebook: the code cells, top to bottom *)

\* cell 1: hyperparameters
PFHyperparametersCell ==
    /\ Ready("pf", 1)
    /\ ns' = Bind(ns, "hyperparameters", PFHyperparameters)
    /\ pc' = 2
    /\ UNCHANGED <<err, blocked, loopI>>
    /\ UNCHANGED remote
    /\ UNCHANGED env

\* cell 2: distributions
PFDistributionsCell ==
    /\ Ready("pf", 2)
    /\ ns' = Bind(ns, "distributions", Distributions)
    /\ pc' = 3
    /\ UNCHANGED <<err, blocked, loopI>>
    /\ UNCHANGED remote
    /\ UNCHANGED env

\* cell 3: rules
PFRulesCell ==
    /\ Ready("pf", 3)
    /\ ns' = Bind(ns, "rules", Rules)
    /\ pc' = 4
    /\ UNCHANGED <<err, blocked, loopI>>
    /\ UNCHANGED remote
    /\ UNCHANGED env

\* cell 4: profiler_config
PFProfilerConfigCell ==
    /\ Ready("pf", 4)
    /\ ns' = Bind(ns, "profiler_config", ProfilerConfig)
    /\ pc' = 5
    /\ UNCHANGED <<err, blocked, loopI>>
    /\ UNCHANGED remote
    /\ UNCHANGED env

\* the estimator built without rules=rules
TensorFlowNoRules(names) ==
    [role |-> "role",
     instance_count |-> 2,
     instance_type |-> "ml.p3.8xlarge",
     entry_point |-> "tf-hvd-train.py",
     source_dir |-> "entry_point",
     framework_version |-> "2.3.1",
     py_version |-> "py37",
     profiler_config |-> names["profiler_config"],
     hyperparameters |-> names["hyperparameters"],
     distribution |-> names["distributions"],
     rules |-> <<>>]

\* estimator = TensorFlow(role=..., instance_count=2, ..., rules=rules)
TensorFlow(names) ==
    [role |-> "role",
     instance_count |-> 2,
     instance_type |-> "ml.p3.8xlarge",
     entry_point |-> "tf-hvd-train.py",
     source_dir |-> "entry_point",
     framework_version |-> "2.3.1",
     py_version |-> "py37",
     profiler_config |-> names["profiler_config"],
     hyperparameters |-> names["hyperparameters"],
     distribution |-> names["distributions"],
     rules |-> names["rules"]]

\* cell 5: estimator = TensorFlow(...)
PFEstimatorCell ==
    /\ Ready("pf", 5)
    /\ \/ NameError({"profiler_config", "hyperparameters", "distributions", "rules"})
       \/ /\ {"profiler_config", "hyperparameters", "distributions", "rules"}
                \subseteq DOMAIN ns
          /\ ns' = Bind(ns, "estimator", TensorFlow(ns))
          /\ pc' = 6
          /\ UNCHANGED <<err, blocked, loopI>>
          /\ UNCHANGED remote
          /\ UNCHANGED env

\* cell 6 as estimator.fit(): the call waits for the job
PFFitWait ==
    /\ Ready("pf", 6)
    /\ "estimator" \in DOMAIN ns
    /\ \E name \in JobNames :
          /\ calls' = Issue(6, "fit", "pending")
          /\ requests' = Append(requests, ns["estimator"])
          /\ job' = "InProgress"
          /\ jobName' = name
          /\ ns' = [ns EXCEPT !["estimator"] =
                       Bind2(@, "latest_training_job",
                             [name |-> name, job_name |-> name],
                             "output_path", DefaultOutputPath(region))]
    /\ blocked' = TRUE
    /\ UNCHANGED <<pc, err, loopI, profData, endpoint>>
    /\ UNCHANGED env

\* cell 6: estimator.fit(wait=False): the request goes out and the call returns
PFFit ==
    /\ Ready("pf", 6)
    /\ \/ NameError({"estimator"})
       \/ /\ "estimator" \in DOMAIN ns
          /\ UNCHANGED <<blocked, loopI, profData, endpoint>>
          /\ UNCHANGED env
          /\ \/ \E e \in RemoteErrors :
                   /\ calls' = Issue(6, "fit", e)
                   /\ err' = e
                   /\ UNCHANGED <<pc, ns, requests, job, jobName>>
             \/ \E name \in JobNames :
                   /\ calls' = Issue(6, "fit", "returned")
                   /\ requests' = Append(requests, ns["estimator"])
                   /\ job' = "InProgress"
                   /\ jobName' = name
                   /\ ns' = [ns EXCEPT !["estimator"] =
                                Bind2(@, "latest_training_job",
                                      [name |-> name, job_name |-> name],
                                      "output_path", DefaultOutputPath(region))]
                   /\ pc' = 7
                   /\ err' = err

\* cell 7: region, training_job_name = estimator.latest_training_job.name
PFJobNameCell ==
    /\ Ready("pf", 7)
    /\ \/ NameError({"estimator"})
       \/ \* latest_training_job is None until a job was submitted
          /\ "estimator" \in DOMAIN ns
          /\ "latest_training_job" \notin DOMAIN ns["estimator"]
          /\ ns' = Bind2(ns, "session", "session", "region", region)
          /\ err' = "AttributeError"
          /\ UNCHANGED <<pc, blocked, loopI>>
          /\ UNCHANGED remote
          /\ UNCHANGED env
       \/ /\ "estimator" \in DOMAIN ns
          /\ "latest_training_job" \in DOMAIN ns["estimator"]
          /\ ns' = Bind3(ns, "session", "session", "region", region,
                         "training_job_name",
                         ns["estimator"].latest_training_job.name)
          /\ pc' = 8
          /\ UNCHANGED <<err, blocked, loopI>>
          /\ UNCHANGED remote
          /\ UNCHANGED env

\* cell 8: tj = TrainingJob(training_job_name, region)
\*         tj.wait_for_sys_profiling_data_to_be_available()
PFPollIssue ==
    /\ Ready("pf", 8)
    /\ \/ NameError({"training_job_name", "region"})
       \/ /\ {"training_job_name", "region"} \subseteq DOMAIN ns
          /\ ns' = Bind(ns, "tj", [name |-> ns["training_job_name"],
                                   region |-> ns["region"]])
          /\ UNCHANGED <<pc, loopI>>
          /\ UNCHANGED <<requests, job, jobName, profData, endpoint>>
          /\ UNCHANGED env
          /\ \/ \E e \in RemoteErrors :
                   /\ calls' = Issue(8, "wait_for_sys_profiling_data_to_be_available", e)
                   /\ err' = e
                   /\ UNCHANGED blocked
             \/ /\ calls' = Issue(8, "wait_for_sys_profiling_data_to_be_available",
                                  "pending")
                /\ blocked' = TRUE
                /\ err' = err

\* the polling call returns once the job's system profiling data is in S3
PFPollReturn ==
    /\ notebook = "pf" /\ pc = 8 /\ err = "none" /\ blocked
    /\ profData
    /\ calls' = Settle(calls, "returned")
    /\ ns' = [ns EXCEPT !["tj"] = Bind(@, "system_metrics_reader", "reader")]
    /\ blocked' = FALSE
    /\ pc' = 9
    /\ UNCHANGED <<err, loopI>>
    /\ UNCHANGED <<requests, job, jobName, profData, endpoint>>
    /\ UNCHANGED env

\* cell 9: system_metrics_reader.refresh_event_file_list()
\*         view_timeline_charts = TimelineCharts(system_metrics_reader, ...)
PFTimelineCell ==
    /\ Ready("pf", 9)
    /\ \/ NameError({"system_metrics_reader"})
       \/ /\ "system_metrics_reader" \in DOMAIN ns
          /\ calls' = Issue(9, "refresh_event_file_list", "returned")
          /\ ns' = Bind(ns, "view_timeline_charts", "charts")
          /\ pc' = 10
          /\ UNCHANGED <<err, blocked, loopI>>
          /\ UNCHANGED <<requests, job, jobName, profData, endpoint>>
          /\ UNCHANGED env

\* cell 10 with the job name left out of the path
PFRuleOutputNoJobName ==
    /\ Ready("pf", 10)
    /\ \/ NameError({"estimator"})
       \/ /\ "estimator" \in DOMAIN ns
          /\ "latest_training_job" \notin DOMAIN ns["estimator"]
          /\ LocalRaise("AttributeError")
       \/ /\ "estimator" \in DOMAIN ns
          /\ "latest_training_job" \in DOMAIN ns["estimator"]
          /\ ns' = Bind(ns, "rule_output_path",
                        ns["estimator"].output_path \o "rule-output")
          /\ pc' = 11
          /\ UNCHANGED <<err, blocked, loopI>>
          /\ UNCHANGED remote
          /\ UNCHANGED env

\* cell 10: rule_output_path = estimator.output_path
\*              + estimator.latest_training_job.job_name + "/rule-output"
PFRuleOutputCell ==
    /\ Ready("pf", 10)
    /\ \/ NameError({"estimator"})
       \/ /\ "estimator" \in DOMAIN ns
          /\ "latest_training_job" \notin DOMAIN ns["estimator"]
          /\ LocalRaise("AttributeError")
       \/ /\ "estimator" \in DOMAIN ns
          /\ "latest_training_job" \in DOMAIN ns["estimator"]
          /\ ns' = Bind(ns, "rule_output_path",
                        ns["estimator"].output_path
                            \o ns["estimator"].latest_training_job.job_name
                            \o "/rule-output")
          /\ pc' = 11
          /\ UNCHANGED <<err, blocked, loopI>>
          /\ UNCHANGED remote
          /\ UNCHANGED env

\* cell 11: the empty last cell
PFEmptyCell ==
    /\ Ready("pf", 11)
    /\ pc' = 12
    /\ UNCHANGED <<ns, err, blocked, loopI>>
    /\ UNCHANGED remote
    /\ UNCHANGED env

NextPF ==
    \/ PFHyperparametersCell \/ PFDistributionsCell \/ PFRulesCell
    \/ PFProfilerConfigCell \/ PFEstimatorCell \/ PFFit \/ PFJobNameCell
    \/ PFPollIssue \/ PFPollReturn \/ PFTimelineCell \/ PFRuleOutputCell
    \/ PFEmptyCell

-----------------------------------------------------------------------------
(* The user who runs the cells by hand goes on after a cell that raised *)

UserContinues ==
    /\ mode = "manual"
    /\ err # "none"
    /\ pc < End
    /\ err' = "none"
    /\ pc' = pc + 1
    /\ loopI' = 1
    /\ UNCHANGED <<ns, blocked>>
    /\ UNCHANGED remote
    /\ UNCHANGED env

-----------------------------------------------------------------------------
(* The platform runs the submitted training job on its own *)

JobEnds ==
    /\ job = "InProgress"
    /\ job' \in {"Completed", "Failed"}
    /\ UNCHANGED kernel
    /\ UNCHANGED <<calls, requests, jobName, profData, endpoint>>
    /\ UNCHANGED env

ProfilingDataArrives ==
    /\ notebook = "pf"
    /\ job = "InProgress"
    /\ ~profData
    /\ profData' = TRUE
    /\ UNCHANGED kernel
    /\ UNCHANGED <<calls, requests, job, jobName, endpoint>>
    /\ UNCHANGED env

NextTC ==
    \/ TCPipInstall \/ TCSetUp \/ TCDefaultModel \/ TCSelectModel \/ UserSelect
    \/ TCReadDropdown \/ TCTrainingData \/ TCEstimator \/ TCFitSubmit
    \/ TCFitReturn \/ TCDeploy \/ TCTexts \/ TCPredict \/ TCDelete

Next == NextTC \/ NextPF \/ UserContinues \/ JobEnds \/ ProfilingDataArrives

Spec == Init /\ [][Next]_vars

-----------------------------------------------------------------------------
(* Properties *)

\* the call raised: its outcome is an exception
Raised(result) == result \notin {"pending", "returned"}

NoRemoteRaise == \A i \in 1..Len(calls) : ~Raised(calls[i].result)

CountOp(op) == Cardinality({i \in 1..Len(calls) : calls[i].op = op})

CountCell(k) == Cardinality({i \in 1..Len(calls) : calls[i].cell = k})

OpsOf(log) == [i \in 1..Len(log) |-> log[i].op]

\* the run is at a stop: every cell was run, or the last one raised
Stopped == pc = End \/ err # "none"

CallRank(op) ==
    CASE op = "download_file" -> 1
      [] op = "fit" -> 2
      [] op = "deploy" -> 3
      [] op = "predict" -> 4
      [] OTHER -> 5

TCCallOrder ==
    /\ \A i, j \in 1..Len(calls) :
          i < j => /\ CallRank(calls[i].op) <= CallRank(calls[j].op)
                   /\ (calls[i].op = calls[j].op => calls[i].op = "predict")
    /\ \A i \in 1..Len(calls) :
          calls[i].op = "predict" =>
              /\ \E j \in 1..(i - 1) :
                    calls[j].op = "deploy" /\ calls[j].result = "returned"
              /\ \A j \in 1..(i - 1) : calls[j].op # "delete_predictor"
    /\ (pc = End /\ NoRemoteRaise) =>
          OpsOf(calls) = <<"download_file", "fit", "deploy", "predict", "predict",
                           "delete_predictor">>

PredictIssued ==
    /\ Len(calls') = Len(calls) + 1
    /\ calls'[Len(calls')].op = "predict"

\* C1: in the text classification notebook the remote calls go out in the order
\* manifest download, fit, deploy, predict, delete_predictor, and a predict is
\* issued only while the endpoint is in service: after deploy returned and
\* before delete_predictor was called.
C1_CallOrder ==
    /\ [](notebook = "tc" => TCCallOrder)
    /\ [][PredictIssued => endpoint = "InService"]_vars

C1_Witness ==
    /\ notebook = "tc"
    /\ pc = 12
    /\ Len(calls) = 5
    /\ calls[5].op = "predict" /\ calls[5].result = "returned"
    /\ endpoint = "InService"

\* C2: a top-to-bottom run of the text classification notebook in which no
\* remote call raised stops with the endpoint torn down: no endpoint is in
\* service, every deploy is matched by one delete_predictor, and a run that ran
\* every cell deployed once and deleted once.
C2_TornDown ==
    (notebook = "tc" /\ Stopped /\ NoRemoteRaise) =>
        /\ endpoint # "InService"
        /\ CountOp("delete_predictor") = CountOp("deploy")
        /\ CountOp("deploy") <= 1
        /\ pc = End => (CountOp("deploy") = 1 /\ endpoint = "Deleted")

C2_Witness ==
    /\ notebook = "tc"
    /\ pc = End
    /\ NoRemoteRaise
    /\ CountOp("deploy") = 1 /\ CountOp("delete_predictor") = 1
    /\ endpoint = "Deleted"

\* the remote calls one execution of code cell k issues when nothing raises
CallsOfCell(k) ==
    IF notebook = "tc"
    THEN (IF k = 11 THEN 2 ELSE IF k \in {4, 8, 9, 12} THEN 1 ELSE 0)
    ELSE (IF k \in {6, 8} THEN 1 ELSE 0)

\* C3 as stated: one execution of a code cell that talks to the platform issues
\* exactly one remote call, the inference cell included.
C3_OneCallPerCell == \A k \in 1..(End - 1) : CountCell(k) <= 1

\* C3: every code cell that talks to the platform issues exactly one remote call
\* per execution, with no retry around it, except the inference cell, whose for
\* loop issues one predict per text (two calls); a call that raised is the last
\* call of its cell.
C3_OneCallPerCellButLoop ==
    /\ \A k \in 1..(End - 1) :
          /\ CountCell(k) <= CallsOfCell(k)
          /\ (mode = "runall" /\ k < pc) => CountCell(k) = CallsOfCell(k)
    /\ \A i, j \in 1..Len(calls) :
          (i < j /\ calls[i].cell = calls[j].cell) => ~Raised(calls[i].result)

C3_Witness ==
    /\ notebook = "tc"
    /\ mode = "runall"
    /\ pc = 12
    /\ CountCell(11) = 2
    /\ CountCell(4) = 1 /\ CountCell(8) = 1 /\ CountCell(9) = 1

\* C4: a remote call that raised is not issued again and no later call of its
\* cell follows it; under Run All no call at all follows it; and the cell stops
\* with exactly the exception the call raised.
C4_NoRetry ==
    /\ \A i \in 1..Len(calls) :
          Raised(calls[i].result) =>
              /\ \A j \in (i + 1)..Len(calls) : calls[j].cell # calls[i].cell
              /\ mode = "runall" => i = Len(calls)
    /\ (calls # <<>> /\ Raised(calls[Len(calls)].result)
            /\ pc = calls[Len(calls)].cell)
          => err = calls[Len(calls)].result

C4_Witness ==
    /\ notebook = "tc"
    /\ mode = "runall"
    /\ Len(calls) = 4
    /\ calls[4].op = "predict"
    /\ calls[4].result \in RemoteErrors
    /\ err = calls[4].result
    /\ loopI = 1
    /\ endpoint = "InService"

PollOp == "wait_for_sys_profiling_data_to_be_available"

\* C5: in the profiling notebook fit(wait=False) returns at once, so the cells
\* after it run whatever the state of the job; the only call the notebook
\* waits in is the polling call, which returns only once the profiling data
\* is there and which the timeline cell comes after; the job is submitted once
\* and no step of the notebook changes a submitted job.
C5_NonBlockingSubmit ==
    /\ [](notebook = "pf" =>
            /\ blocked => (pc = 8 /\ calls[Len(calls)].op = PollOp)
            /\ \A i \in 1..Len(calls) :
                  /\ (calls[i].op = "fit" => calls[i].result # "pending")
                  /\ (calls[i].op = PollOp /\ calls[i].result = "returned")
                        => profData
                  /\ (calls[i].op = PollOp /\ calls[i].result = "pending")
                        => pc = 8
            /\ (mode = "runall" /\ pc >= 9) =>
                  \E i \in 1..Len(calls) :
                      calls[i].op = PollOp /\ calls[i].result = "returned"
            /\ Len(requests) <= 1 /\ CountOp("fit") <= 1
            /\ job \in {"none", "InProgress", "Completed", "Failed"})
    /\ [][(notebook = "pf" /\ job # "none" /\ job' # job) => UNCHANGED kernel]_vars

C5_Witness ==
    /\ notebook = "pf"
    /\ job = "InProgress"
    /\ {"training_job_name", "rule_output_path"} \subseteq DOMAIN ns
    /\ \E i \in 1..Len(calls) :
          calls[i].op = PollOp /\ calls[i].result = "returned"

\* C6 as stated: the profiler configuration handed to the training job makes
\* the detailed profiling start at step 5 and end at step 15.
C6_StepRange5To15 ==
    (notebook = "pf" /\ requests # <<>>) =>
        LET p == requests[1].profiler_config.framework_profile_params
        IN  p.start_step = 5 /\ p.start_step + p.num_steps = 15

FirstIndex(list, x) ==
    CHOOSE i \in 1..Len(list) : list[i] = x /\ \A j \in 1..(i - 1) : list[j] # x

\* C7: tc_models holds exactly the model ids of the manifest that contain
\* "-tc-", each once, in the order of their first occurrence in the manifest.
C7_TcModels ==
    "tc_models" \in DOMAIN ns =>
        LET t == ns["tc_models"]
            ids == [i \in 1..Len(manifest) |-> manifest[i].model_id]
        IN  /\ \A i \in 1..Len(ids) : Contains(ids[i], "-tc-") => InList(ids[i], t)
            /\ \A i \in 1..Len(t) : Contains(t[i], "-tc-") /\ InList(t[i], ids)
            /\ \A i, j \in 1..Len(t) :
                  i < j => /\ t[i] # t[j]
                           /\ FirstIndex(ids, t[i]) < FirstIndex(ids, t[j])

C7_Witness ==
    /\ "tc_models" \in DOMAIN ns
    /\ Len(manifest) = 3
    /\ Len(ns["tc_models_all_versions"]) = 3
    /\ Len(ns["tc_models"]) = 2
    /\ ns["tc_models"][1] # DefaultModelId

TCRequest(model_id) ==
    [model_id |-> model_id,
     hyperparameters |-> [epochs |-> "1", batch_size |-> "64"],
     inputs |-> [training |->
                   "s3://jumpstart-cache-prod-" \o region \o "/training-datasets/SST/"]]

\* C8 as stated: the model id of the estimator is the value read from the
\* dropdown and always a member of tc_models, and the job is submitted with it.
C8_ModelIdAlwaysListed ==
    (notebook = "tc" /\ "estimator" \in DOMAIN ns) =>
        /\ "dropdown" \in DOMAIN ns
        /\ InList(ns["estimator"].model_id, ns["tc_models"])
        /\ requests # <<>> => requests[1] = TCRequest(ns["estimator"].model_id)

\* C8: whenever the model-selection cell built the dropdown, which under Run All
\* is whenever the estimator cell is reached, the model id of the estimator is
\* the value the cell model_id = dropdown.value read, a member of tc_models
\* (so it contains "-tc-"), and the default id when the user selected nothing;
\* the one job is submitted with the estimator's model id, the hyperparameters
\* epochs "1" and batch_size "64" and the channel "training".
C8_ModelIdFromDropdown ==
    /\ [](notebook = "tc" =>
            /\ ("estimator" \in DOMAIN ns /\ "dropdown" \in DOMAIN ns) =>
                  /\ ns["estimator"].model_id = ns["model_id"]
                  /\ InList(ns["estimator"].model_id, ns["tc_models"])
                  /\ Contains(ns["estimator"].model_id, "-tc-")
                  /\ ~selected => ns["estimator"].model_id = DefaultModelId
            /\ ("estimator" \in DOMAIN ns /\ mode = "runall") =>
                  "dropdown" \in DOMAIN ns
            /\ requests # <<>> =>
                  /\ Len(requests) = 1
                  /\ requests[1] = TCRequest(ns["estimator"].model_id))
    /\ [][(notebook = "tc" /\ pc = 5 /\ pc' = 6 /\ "dropdown" \in DOMAIN ns)
              => ns'["model_id"] = ns["dropdown"].value]_vars

C8_Witness ==
    /\ notebook = "tc"
    /\ requests # <<>>
    /\ "dropdown" \in DOMAIN ns
    /\ selected
    /\ ns["estimator"].model_id # DefaultModelId
    /\ ns["dropdown"].value = DefaultModelId

\* C9: the configuration records of the profiling notebook keep the values they
\* were built with, and the one training request carries them together with
\* role, instance count 2, instance type, entry point and versions.
C9_ConfigSentOnce ==
    notebook = "pf" =>
        /\ "hyperparameters" \in DOMAIN ns =>
              ns["hyperparameters"] =
                  [epoch |-> 5, batch_size |-> 64, data_augmentation |-> TRUE]
        /\ "distributions" \in DOMAIN ns =>
              /\ ns["distributions"].mpi.enabled
              /\ ns["distributions"].mpi.processes_per_host = 4
        /\ "rules" \in DOMAIN ns =>
              [i \in 1..Len(ns["rules"]) |-> ns["rules"][i].config] =
                  <<"loss_not_decreasing", "LowGPUUtilization", "ProfilerReport">>
        /\ "profiler_config" \in DOMAIN ns =>
              ns["profiler_config"].system_monitor_interval_millis = 500
        /\ Len(requests) <= 1
        /\ requests # <<>> =>
              /\ requests[1].hyperparameters = ns["hyperparameters"]
              /\ requests[1].distribution = ns["distributions"]
              /\ requests[1].rules = ns["rules"]
              /\ requests[1].profiler_config = ns["profiler_config"]
              /\ requests[1].role = "role"
              /\ requests[1].instance_count = 2
              /\ requests[1].instance_type = "ml.p3.8xlarge"
              /\ requests[1].entry_point = "tf-hvd-train.py"
              /\ requests[1].framework_version = "2.3.1"
              /\ requests[1].py_version = "py37"

C9_Witness ==
    /\ notebook = "pf"
    /\ Len(requests) = 1
    /\ Len(requests[1].rules) = 3
    /\ pc = 7

C11_ReadsAreBound ==
    /\ (mode = "runall") => err # "NameError"
    /\ (notebook = "pf" /\ pc = 9 /\ err = "none")
          => "system_metrics_reader" \in DOMAIN ns

\* estimator.deploy() returned a predictor in this run
DeployReturned ==
    \E i \in 1..Len(calls) : calls[i].op = "deploy" /\ calls[i].result = "returned"

\* C12 as stated: a Run All pass over the text classification notebook in which
\* estimator.deploy() succeeded never stops with the endpoint still deployed,
\* runs stopped by a raising predictor.predict() included: once such a run has
\* stopped, the endpoint is deleted.
C12_EndpointAlwaysDeleted ==
    (notebook = "tc" /\ mode = "runall" /\ Stopped /\ DeployReturned)
        => endpoint = "Deleted"

\* C12, amended: after a successful deploy the endpoint is deleted exactly by a
\* delete_predictor call that returned; a run that has stopped with the
\* endpoint still in service stopped on a predict or delete_predictor call that
\* raised, and nothing in the notebook deletes the endpoint on that path.
C12_DeletedOnlyByDeleteCell ==
    (notebook = "tc" /\ DeployReturned) =>
        /\ endpoint \in {"InService", "Deleted"}
        /\ endpoint = "Deleted" <=>
              \E i \in 1..Len(calls) :
                 calls[i].op = "delete_predictor" /\ calls[i].result = "returned"
        /\ (Stopped /\ endpoint = "InService") =>
              /\ calls[Len(calls)].op \in {"predict", "delete_predictor"}
              /\ Raised(calls[Len(calls)].result)

C12_Witness ==
    /\ notebook = "tc"
    /\ mode = "runall"
    /\ DeployReturned
    /\ loopI = 2
    /\ calls[Len(calls)].op = "predict"
    /\ err \in RemoteErrors
    /\ err = calls[Len(calls)].result
    /\ endpoint = "InService"

\* the downloaded manifest has a record of this model id
ManifestLists(id) == \E i \in 1..Len(manifest) : manifest[i].model_id = id

DownloadReturned ==
    \E i \in 1..Len(calls) :
       calls[i].op = "download_file" /\ calls[i].result = "returned"

\* C13: whenever the downloaded manifest lists the default model id, the
\* dropdown is constructed (no TraitError) with the default id as its initial
\* value, and that id passed the "-tc-" filter and the de-duplication; in every
\* state in which the dropdown exists the initial value and the current value
\* are among its options.
C13_InitialValueIsOption ==
    /\ (notebook = "tc" /\ DownloadReturned /\ ManifestLists(DefaultModelId)) =>
          /\ err # "TraitError"
          /\ "dropdown" \in DOMAIN ns
          /\ InList(DefaultModelId, ns["tc_models_all_versions"])
          /\ InList(DefaultModelId, ns["tc_models"])
    /\ "dropdown" \in DOMAIN ns =>
          /\ ns["dropdown"].options = ns["tc_models"]
          /\ InList(DefaultModelId, ns["dropdown"].options)
          /\ InList(ns["dropdown"].value, ns["dropdown"].options)
          /\ ~selected => ns["dropdown"].value = DefaultModelId

\* the default id is listed twice and is not the first option
C13_Witness ==
    /\ "dropdown" \in DOMAIN ns
    /\ ~selected
    /\ Len(ns["tc_models_all_versions"]) = 3
    /\ Len(ns["dropdown"].options) = 2
    /\ ns["dropdown"].options[2] = DefaultModelId
    /\ ns["dropdown"].value = DefaultModelId

\* C14: a run of the profiling notebook submits at most one training job, and
\* training_job_name (estimator.latest_training_job.name), the job that
\* TrainingJob(training_job_name, region) polls, and the job name inside
\* rule_output_path (estimator.output_path + job name + "/rule-output") all
\* name the job that was submitted.
C14_OneJobOneName ==
    notebook = "pf" =>
        /\ CountOp("fit") <= 1
        /\ Len(requests) <= 1
        /\ Len(requests) = 1 <=> jobName \in JobNames
        /\ "training_job_name" \in DOMAIN ns =>
              /\ Len(requests) = 1
              /\ ns["training_job_name"] = jobName
        /\ "tj" \in DOMAIN ns =>
              /\ ns["tj"].name = jobName
              /\ ns["tj"].region = region
        /\ "rule_output_path" \in DOMAIN ns =>
              /\ Len(requests) = 1
              /\ ns["rule_output_path"] =
                    DefaultOutputPath(region) \o jobName \o "/rule-output"

C14_Witness ==
    /\ notebook = "pf"
    /\ Len(requests) = 1
    /\ {"training_job_name", "tj", "rule_output_path"} \subseteq DOMAIN ns
    /\ ns["tj"].name = ns["training_job_name"]
    /\ Contains(ns["rule_output_path"], ns["training_job_name"])
    /\ pc = End

====
